---- MODULE Spec2Model ----
(***************************************************************************)
(* A model of the interview-coach backend (src/backend): the Capability    *)
(* Gate of LLMService and its loader thread, question generation, the      *)
(* communication and technical scorers, the evaluate endpoint and the      *)
(* report synthesizer.                                                     *)
(*                                                                         *)
(* Texts are sequences of one-character strings, so that lower(), split(), *)
(* substring tests and the word-boundary regular expressions are computed  *)
(* as the code computes them.  Scores are fixed-point numbers: the integer *)
(* n stands for n / Unit, so 0.5 is 5000 and a score rounded to two        *)
(* decimals is a multiple of 100.                                          *)
(***************************************************************************)
EXTENDS Integers, Sequences, FiniteSets, TLC

\* One score unit: the integer that stands for 1.0.
Unit == 100 * 100

\* The gap between two values that round(x, 2) can return.
Cent == Unit \div 100

(***************************************************************************)
(* Text primitives (Python str methods and the re module)                  *)
(***************************************************************************)

\* The ASCII upper-case letters and their lower-case forms, position by position.
Uppers ==
    << "A", "B", "C", "D", "E", "F", "G", "H", "I", "J", "K", "L", "M",
       "N", "O", "P", "Q", "R", "S", "T", "U", "V", "W", "X", "Y", "Z" >>

Lowers ==
    << "a", "b", "c", "d", "e", "f", "g", "h", "i", "j", "k", "l", "m",
       "n", "o", "p", "q", "r", "s", "t", "u", "v", "w", "x", "y", "z" >>

Digits == {"0", "1", "2", "3", "4", "5", "6", "7", "8", "9"}

Range(s) == {s[i] : i \in DOMAIN s}

\* str.isupper() of one character
IsUpper(c) == c \in Range(Uppers)

\* str.isspace() of one character
IsSpace(c) == c \in {" ", "\n", "\t"}

\* \w of the re module: what \b takes for a word character
IsWordChar(c) == c \in Range(Uppers) \cup Range(Lowers) \cup Digits \cup {"_"}

LowerChar(c) ==
    IF IsUpper(c) THEN Lowers[CHOOSE i \in DOMAIN Uppers : Uppers[i] = c] ELSE c

\* str.lower()
lower(text) == [i \in DOMAIN text |-> LowerChar(text[i])]

\* text[i:i+len(pat)] == pat
MatchAt(pat, text, i) ==
    /\ i >= 1
    /\ i + Len(pat) - 1 <= Len(text)
    /\ \A k \in 1..Len(pat) : text[i + k - 1] = pat[k]

\* `pat in text` for strings
Contains(text, pat) == \E i \in 1..(Len(text) - Len(pat) + 1) : MatchAt(pat, text, i)

\* \b at the gap before position i (between text[i-1] and text[i])
Boundary(text, i) ==
    LET before == i > 1 /\ i - 1 <= Len(text) /\ IsWordChar(text[i - 1])
        after  == i >= 1 /\ i <= Len(text) /\ IsWordChar(text[i])
    IN  before # after

\* The least position j >= i at which pat matches text as a whole word, or 0
NextWordMatch(pat, text, i) ==
    LET hits == {j \in i..(Len(text) - Len(pat) + 1) :
                    /\ MatchAt(pat, text, j)
                    /\ Boundary(text, j)
                    /\ Boundary(text, j + Len(pat))}
    IN  IF hits = {} THEN 0 ELSE CHOOSE j \in hits : \A k \in hits : j <= k

\* re.findall(r'\b' + re.escape(pat) + r'\b', text): the non-overlapping matches,
\* scanning from position i, left to right
RECURSIVE FindAllFrom(_, _, _)
FindAllFrom(pat, text, i) ==
    LET j == NextWordMatch(pat, text, i)
    IN  IF j = 0 THEN << >> ELSE << pat >> \o FindAllFrom(pat, text, j + Len(pat))

\* The least position j >= i at which pat occurs in text, or 0
NextMatch(pat, text, i) ==
    LET hits == {j \in i..(Len(text) - Len(pat) + 1) : MatchAt(pat, text, j)}
    IN  IF hits = {} THEN 0 ELSE CHOOSE j \in hits : \A k \in hits : j <= k

\* str.count(pat): the non-overlapping occurrences of pat, with no word boundaries
RECURSIVE CountFrom(_, _, _)
CountFrom(pat, text, i) ==
    LET j == NextMatch(pat, text, i)
    IN  IF j = 0 THEN 0 ELSE 1 + CountFrom(pat, text, j + Len(pat))

\* The positions at which a word of str.split() starts, and where that word ends
WordStarts(text) ==
    {i \in DOMAIN text : ~IsSpace(text[i]) /\ (i = 1 \/ IsSpace(text[i - 1]))}

WordEnd(text, i) ==
    CHOOSE j \in i..Len(text) :
        /\ \A k \in i..j : ~IsSpace(text[k])
        /\ (j = Len(text) \/ IsSpace(text[j + 1]))

\* len(text.split())
WordCount(text) == Cardinality(WordStarts(text))

\* set(text.split())
WordSet(text) == {SubSeq(text, i, WordEnd(text, i)) : i \in WordStarts(text)}

\* str.strip()
strip(text) ==
    LET inked == {i \in DOMAIN text : ~IsSpace(text[i])}
    IN  IF inked = {} THEN << >>
        ELSE SubSeq(text,
                    CHOOSE i \in inked : \A k \in inked : i <= k,
                    CHOOSE i \in inked : \A k \in inked : i >= k)

\* sum(1 for word in words if word in text)
RECURSIVE CountContained(_, _)
CountContained(words, text) ==
    IF words = << >> THEN 0
    ELSE (IF Contains(text, Head(words)) THEN 1 ELSE 0) + CountContained(Tail(words), text)

Min(a, b) == IF a < b THEN a ELSE b

Max(a, b) == IF a > b THEN a ELSE b

\* A scorer that trusts its arithmetic and leaves the clamp out
Clamp01_Absent(x) == x

\* max(0.0, min(1.0, x)): the clamp every score goes through
Clamp01(x) == Max(0, Min(Unit, x))

\* round(x, 2), for x >= 0
Round2(x) == ((x + (Cent \div 2)) \div Cent) * Cent

\* dict.get(key, default)
Get(d, key, default) == IF key \in DOMAIN d THEN d[key] ELSE default

\* AnalysisService.filler_words: the fixed filler list, each entry a character sequence
filler_words ==
    << <<"u", "m">>,
    <<"u", "h">>,
    <<"e", "r">>,
    <<"a", "h">>,
    <<"l", "i", "k", "e">>,
    <<"y", "o", "u", " ", "k", "n", "o", "w">>,
    <<"s", "o">>,
    <<"w", "e", "l", "l">>,
    <<"a", "c", "t", "u", "a", "l", "l", "y">>,
    <<"b", "a", "s", "i", "c", "a", "l", "l", "y">>,
    <<"l", "i", "t", "e", "r", "a", "l", "l", "y">>,
    <<"r", "i", "g", "h", "t">>,
    <<"o", "k", "a", "y">>,
    <<"o", "k">>,
    <<"h", "m", "m">>,
    <<"h", "u", "h">>,
    <<"y", "e", "a", "h">>,
    <<"y", "e", "p">>,
    <<"n", "o", "p", "e">> >>

\* positive indicators of _calculate_tone_score
positive_words ==
    << <<"c", "o", "n", "f", "i", "d", "e", "n", "t">>,
    <<"e", "x", "c", "i", "t", "e", "d">>,
    <<"p", "a", "s", "s", "i", "o", "n", "a", "t", "e">>,
    <<"m", "o", "t", "i", "v", "a", "t", "e", "d">>,
    <<"s", "u", "c", "c", "e", "s", "s", "f", "u", "l">>,
    <<"a", "c", "h", "i", "e", "v", "e", "d">>,
    <<"i", "m", "p", "r", "o", "v", "e", "d">>,
    <<"l", "e", "a", "r", "n", "e", "d">>,
    <<"e", "x", "p", "e", "r", "t", "i", "s", "e">>,
    <<"e", "x", "p", "e", "r", "i", "e", "n", "c", "e">> >>

\* hesitation indicators of _calculate_tone_score
negative_words ==
    << <<"m", "a", "y", "b", "e">>,
    <<"p", "e", "r", "h", "a", "p", "s">>,
    <<"i", " ", "t", "h", "i", "n", "k">>,
    <<"i", " ", "g", "u", "e", "s", "s">>,
    <<"n", "o", "t", " ", "s", "u", "r", "e">>,
    <<"d", "o", "n", "'", "t", " ", "k", "n", "o", "w">>,
    <<"u", "n", "c", "e", "r", "t", "a", "i", "n">>,
    <<"d", "o", "u", "b", "t">> >>

\* professional-language indicators of _calculate_tone_score
professional_words ==
    << <<"i", "m", "p", "l", "e", "m", "e", "n", "t", "e", "d">>,
    <<"d", "e", "v", "e", "l", "o", "p", "e", "d">>,
    <<"d", "e", "s", "i", "g", "n", "e", "d">>,
    <<"o", "p", "t", "i", "m", "i", "z", "e", "d">>,
    <<"a", "n", "a", "l", "y", "z", "e", "d">>,
    <<"c", "o", "l", "l", "a", "b", "o", "r", "a", "t", "e", "d">>,
    <<"m", "a", "n", "a", "g", "e", "d">>,
    <<"d", "e", "l", "i", "v", "e", "r", "e", "d">> >>

\* keywords["software"]
kw_software ==
    << <<"a", "l", "g", "o", "r", "i", "t", "h", "m">>,
    <<"d", "a", "t", "a", " ", "s", "t", "r", "u", "c", "t", "u", "r", "e">>,
    <<"a", "p", "i">>,
    <<"d", "a", "t", "a", "b", "a", "s", "e">>,
    <<"f", "r", "a", "m", "e", "w", "o", "r", "k">>,
    <<"c", "o", "d", "e">>,
    <<"p", "r", "o", "g", "r", "a", "m", "m", "i", "n", "g">> >>

\* keywords["data_science"]
kw_data_science ==
    << <<"m", "a", "c", "h", "i", "n", "e", " ", "l", "e", "a", "r", "n", "i", "n", "g">>,
    <<"m", "o", "d", "e", "l">>,
    <<"d", "a", "t", "a", "s", "e", "t">>,
    <<"f", "e", "a", "t", "u", "r", "e">>,
    <<"p", "r", "e", "d", "i", "c", "t", "i", "o", "n">>,
    <<"t", "r", "a", "i", "n", "i", "n", "g">>,
    <<"a", "c", "c", "u", "r", "a", "c", "y">> >>

\* keywords["electronics"]
kw_electronics ==
    << <<"c", "i", "r", "c", "u", "i", "t">>,
    <<"v", "o", "l", "t", "a", "g", "e">>,
    <<"c", "u", "r", "r", "e", "n", "t">>,
    <<"r", "e", "s", "i", "s", "t", "o", "r">>,
    <<"t", "r", "a", "n", "s", "i", "s", "t", "o", "r">>,
    <<"s", "i", "g", "n", "a", "l">>,
    <<"d", "i", "g", "i", "t", "a", "l">>,
    <<"a", "n", "a", "l", "o", "g">> >>

\* keywords["general"]
kw_general ==
    << <<"e", "x", "p", "e", "r", "i", "e", "n", "c", "e">>,
    <<"p", "r", "o", "j", "e", "c", "t">>,
    <<"t", "e", "a", "m">>,
    <<"p", "r", "o", "b", "l", "e", "m">>,
    <<"s", "o", "l", "u", "t", "i", "o", "n">>,
    <<"s", "k", "i", "l", "l">> >>

\* ""
TxtEmpty ==
    <<  >>

\* "  \n "
TxtBlank ==
    << " ", " ", "\n", " " >>

\* "Um, I think UM so"
TxtUm ==
    << "U", "m", ",", " ", "I", " ", "t", "h", "i", "n", "k", " ", "U", "M", " ", "s", "o" >>

\* "I implemented and optimized the database api. Our team delivered a solution with code and an algorithm framework!"
TxtGood ==
    << "I", " ", "i", "m", "p", "l", "e", "m", "e", "n", "t", "e", "d", " ", "a", "n", "d", " ", "o",
       "p", "t", "i", "m", "i", "z", "e", "d", " ", "t", "h", "e", " ", "d", "a", "t", "a", "b", "a",
       "s", "e", " ", "a", "p", "i", ".", " ", "O", "u", "r", " ", "t", "e", "a", "m", " ", "d", "e",
       "l", "i", "v", "e", "r", "e", "d", " ", "a", " ", "s", "o", "l", "u", "t", "i", "o", "n", " ",
       "w", "i", "t", "h", " ", "c", "o", "d", "e", " ", "a", "n", "d", " ", "a", "n", " ", "a", "l",
       "g", "o", "r", "i", "t", "h", "m", " ", "f", "r", "a", "m", "e", "w", "o", "r", "k", "!" >>

\* TxtGood with its last sentence drawn out to 23 words in all:
\* "... with code and an algorithm framework that we use every day!"
TxtStrong ==
    SubSeq(TxtGood, 1, Len(TxtGood) - 1)
    \o << " ", "t", "h", "a", "t", " ", "w", "e", " ", "u", "s", "e", " ", "e", "v", "e", "r", "y", " ",
       "d", "a", "y", "!" >>

\* "it is likely okay"
TxtLikely ==
    << "i", "t", " ", "i", "s", " ", "l", "i", "k", "e", "l", "y", " ", "o", "k", "a", "y" >>

\* "um so uh well I guess maybe the circuit like works okay"
TxtSix ==
    << "u", "m", " ", "s", "o", " ", "u", "h", " ", "w", "e", "l", "l", " ", "I", " ", "g", "u", "e",
       "s", "s", " ", "m", "a", "y", "b", "e", " ", "t", "h", "e", " ", "c", "i", "r", "c", "u", "i",
       "t", " ", "l", "i", "k", "e", " ", "w", "o", "r", "k", "s", " ", "o", "k", "a", "y" >>

\* "Um uh er ah like so well right okay hmm yeah the model is not sure. perhaps i doubt it"
TxtEleven ==
    << "U", "m", " ", "u", "h", " ", "e", "r", " ", "a", "h", " ", "l", "i", "k", "e", " ", "s", "o",
       " ", "w", "e", "l", "l", " ", "r", "i", "g", "h", "t", " ", "o", "k", "a", "y", " ", "h", "m",
       "m", " ", "y", "e", "a", "h", " ", "t", "h", "e", " ", "m", "o", "d", "e", "l", " ", "i", "s",
       " ", "n", "o", "t", " ", "s", "u", "r", "e", ".", " ", "p", "e", "r", "h", "a", "p", "s", " ",
       "i", " ", "d", "o", "u", "b", "t", " ", "i", "t" >>

\* "code code code code code code code code code code code code"
TxtRepeat ==
    << "c", "o", "d", "e", " ", "c", "o", "d", "e", " ", "c", "o", "d", "e", " ", "c", "o", "d", "e",
       " ", "c", "o", "d", "e", " ", "c", "o", "d", "e", " ", "c", "o", "d", "e", " ", "c", "o", "d",
       "e", " ", "c", "o", "d", "e", " ", "c", "o", "d", "e", " ", "c", "o", "d", "e", " ", "c", "o",
       "d", "e" >>

\* "code code code code code code"
TxtSixCodes ==
    << "c", "o", "d", "e", " ", "c", "o", "d", "e", " ", "c", "o", "d", "e", " ", "c", "o", "d", "e",
       " ", "c", "o", "d", "e", " ", "c", "o", "d", "e" >>

\* "um uh er ah like so well right okay hmm yeah "
ElevenFillers ==
    << "u", "m", " ", "u", "h", " ", "e", "r", " ", "a", "h", " ", "l", "i", "k", "e", " ", "s", "o",
       " ", "w", "e", "l", "l", " ", "r", "i", "g", "h", "t", " ", "o", "k", "a", "y", " ", "h", "m",
       "m", " ", "y", "e", "a", "h", " " >>

\* ElevenFillers in front of TxtSixCodes: the same transcript but for 11 filler words
TxtFillersThenCodes == ElevenFillers \o TxtSixCodes

\* "Go go go go. Go go go go. Go go go go. Go no."
TxtGoGo ==
    << "G", "o", " ", "g", "o", " ", "g", "o", " ", "g", "o", ".", " ", "G", "o", " ", "g", "o", " ",
       "g", "o", " ", "g", "o", ".", " ", "G", "o", " ", "g", "o", " ", "g", "o", " ", "g", "o", ".",
       " ", "G", "o", " ", "n", "o", "." >>

\* "um uh er ah like the test"
TxtFive ==
    << "u", "m", " ", "u", "h", " ", "e", "r", " ", "a", "h", " ", "l", "i", "k", "e", " ", "t", "h",
       "e", " ", "t", "e", "s", "t" >>

\* "um uh er ah like so well right okay hmm the test"
TxtTen ==
    << "u", "m", " ", "u", "h", " ", "e", "r", " ", "a", "h", " ", "l", "i", "k", "e", " ", "s", "o",
       " ", "w", "e", "l", "l", " ", "r", "i", "g", "h", "t", " ", "o", "k", "a", "y", " ", "h", "m",
       "m", " ", "t", "h", "e", " ", "t", "e", "s", "t" >>

(***************************************************************************)
(* AnalysisService (services/analysis_service.py)                          *)
(***************************************************************************)

\* A transcript as a handler receives it: a string, or a value that is no string
\* (the websocket handler passes data["transcript"] of any JSON type).
Str(chars) == [isStr |-> TRUE, chars |-> chars]

NotAString == [isStr |-> FALSE, chars |-> << >>]

\* nltk.sent_tokenize, when the punkt data is installed: the text is cut after
\* each '.', '!' or '?' that whitespace follows, and the pieces are stripped.
SentenceCuts(text) ==
    {i \in DOMAIN text : text[i] \in {".", "!", "?"} /\ i < Len(text) /\ IsSpace(text[i + 1])}

\* The sentences of text from position i on
RECURSIVE SentencesFrom(_, _)
SentencesFrom(text, i) ==
    LET cuts == {j \in SentenceCuts(text) : j >= i}
        cut  == IF cuts = {} THEN Len(text) ELSE CHOOSE j \in cuts : \A k \in cuts : j <= k
        piece == strip(SubSeq(text, i, cut))
        rest == IF cut >= Len(text) THEN << >> ELSE SentencesFrom(text, cut + 1)
    IN  (IF piece = << >> THEN << >> ELSE << piece >>) \o rest

sent_tokenize(text) == SentencesFrom(text, 1)

\* _detect_filler_words: every whole-word, case-insensitive occurrence of every
\* filler, filler by filler in list order
RECURSIVE FillersFrom(_, _)
FillersFrom(fillers, text_lower) ==
    IF fillers = << >> THEN << >>
    ELSE FindAllFrom(Head(fillers), text_lower, 1) \o FillersFrom(Tail(fillers), text_lower)

_detect_filler_words(text) ==
    LET found_fillers == FillersFrom(filler_words, lower(text))
    IN  [found |-> found_fillers, count |-> Len(found_fillers)]

\* AudioService.detect_filler_words, lines 121-124: its own list, which is the
\* first 14 entries of AnalysisService.filler_words
audio_filler_words == SubSeq(filler_words, 1, 14)

\* [filler] * count
Copies(filler, count) == [i \in 1..count |-> filler]

\* AudioService.detect_filler_words, lines 129-133: filler by filler, as many
\* copies as text_lower.count(filler) finds
RECURSIVE AudioFillersFrom(_, _)
AudioFillersFrom(fillers, text_lower) ==
    IF fillers = << >> THEN << >>
    ELSE Copies(Head(fillers), CountFrom(Head(fillers), text_lower, 1))
         \o AudioFillersFrom(Tail(fillers), text_lower)

detect_filler_words(text) ==
    LET found_fillers == AudioFillersFrom(audio_filler_words, lower(text))
    IN  [found |-> found_fillers, count |-> Len(found_fillers)]

\* sum(len(s.split()) for s in sentences)
RECURSIVE SumWords(_)
SumWords(sentences) ==
    IF sentences = << >> THEN 0
    ELSE WordCount(Head(sentences)) + SumWords(Tail(sentences))

\* length_score of _calculate_clarity_score: tiers of the mean words per sentence
\* (total / n compared without dividing)
LengthTier(total, n) ==
    IF 15 * n <= total /\ total <= 20 * n THEN Unit
    ELSE IF 10 * n <= total /\ total <= 25 * n THEN (8 * Unit) \div 10
    ELSE IF 5 * n <= total /\ total <= 30 * n THEN (6 * Unit) \div 10
    ELSE (4 * Unit) \div 10

\* readability_score: flesch is what textstat.flesch_reading_ease returned, or a fault
Readability(flesch) ==
    IF flesch.ok THEN Clamp01(((flesch.value - 30) * Unit) \div 70)
    ELSE (7 * Unit) \div 10

_calculate_clarity_score(text, flesch) ==
    IF text = << >> \/ strip(text) = << >> THEN 0
    ELSE LET sentences == sent_tokenize(text)
             text_lower == lower(text)
             word_count == WordCount(text_lower)
             length_score == LengthTier(SumWords(sentences), Len(sentences))
             unique_ratio == IF word_count = 0 THEN 0
                             ELSE (Cardinality(WordSet(text_lower)) * Unit) \div word_count
             diversity_score == Min(Unit, (unique_ratio * 12) \div 10)
             readability_score == Readability(flesch)
             clarity == (length_score * 3 + diversity_score * 3 + readability_score * 4) \div 10
         IN  IF sentences = << >> THEN Unit \div 2 ELSE Clamp01(clarity)

EndsProperly(s) ==
    LET t == strip(s) IN t # << >> /\ t[Len(t)] \in {".", "!", "?"}

StartsUpper(s) == s # << >> /\ IsUpper(s[1])

_calculate_grammar_score(text) ==
    IF text = << >> \/ strip(text) = << >> THEN 0
    ELSE LET sentences == sent_tokenize(text)
             n == Len(sentences)
             proper_endings == Cardinality({i \in 1..n : EndsProperly(sentences[i])})
             proper_caps == Cardinality({i \in 1..n : StartsUpper(sentences[i])})
             score == (7 * Unit) \div 10
                      + (proper_endings * ((2 * Unit) \div 10)) \div n
                      + (proper_caps * (Unit \div 10)) \div n
         IN  IF sentences = << >> THEN Unit \div 2 ELSE Clamp01(score)

_calculate_tone_score(text) ==
    IF text = << >> \/ strip(text) = << >> THEN Unit \div 2
    ELSE LET text_lower == lower(text)
             positive_count == CountContained(positive_words, text_lower)
             negative_count == CountContained(negative_words, text_lower)
             professional_count == CountContained(professional_words, text_lower)
             score == (7 * Unit) \div 10
                      + Min((2 * Unit) \div 10, positive_count * ((5 * Unit) \div 100))
                      - Min((2 * Unit) \div 10, negative_count * ((5 * Unit) \div 100))
                      + Min(Unit \div 10, professional_count * ((2 * Unit) \div 100))
         IN  Clamp01(score)

\* The suggestion texts, by what triggers them
FillerTip(filler_count) == << "Reduce filler words", filler_count >>

ClarityTip == << "Improve clarity by using shorter, more direct sentences." >>

GrammarTip == << "Work on grammar and sentence structure." >>

ToneTip == << "Use more confident language." >>

GreatCommunication == << "Great communication! Continue practicing to maintain consistency." >>

_generate_communication_suggestions(filler_count, clarity_score, grammar_score, tone_score) ==
    LET suggestions ==
            (IF filler_count > 5 THEN << FillerTip(filler_count) >> ELSE << >>)
            \o (IF clarity_score < (6 * Unit) \div 10 THEN << ClarityTip >> ELSE << >>)
            \o (IF grammar_score < (6 * Unit) \div 10 THEN << GrammarTip >> ELSE << >>)
            \o (IF tone_score < (6 * Unit) \div 10 THEN << ToneTip >> ELSE << >>)
    IN  IF suggestions = << >> THEN << GreatCommunication >> ELSE suggestions

\* A composite whose second penalty replaces the first
CommScore_SinglePenalty(clarity_score, grammar_score, tone_score, filler_count) ==
    LET base == (clarity_score * 4 + grammar_score * 3 + tone_score * 3) \div 10
    IN  Clamp01(IF filler_count > 10 THEN (base * 8) \div 10
                ELSE IF filler_count > 5 THEN (base * 9) \div 10
                ELSE base)

\* The composite of analyze_communication (lines 56-64)
CommScore(clarity_score, grammar_score, tone_score, filler_count) ==
    LET base == (clarity_score * 4 + grammar_score * 3 + tone_score * 3) \div 10
        pen1 == IF filler_count > 5 THEN (base * 9) \div 10 ELSE base
        pen2 == IF filler_count > 10 THEN (pen1 * 8) \div 10 ELSE pen1
    IN  Clamp01(pen2)

\* The result of the except branch of analyze_communication
AnalysisError ==
    [score |-> Unit \div 2,
     filler_words_count |-> 0,
     filler_words |-> {},
     clarity_score |-> Unit \div 2,
     grammar_score |-> Unit \div 2,
     tone_score |-> Unit \div 2,
     suggestions |-> << << "Analysis error occurred" >> >>,
     raised |-> FALSE]

\* The tokenizer reached for a blank text as well
AnalysisFaults_TokenizesBlank(transcript, env) == ~transcript.isStr \/ ~env.punkt

\* A step of the try block raises: text.lower() on a value that is no string, or
\* nltk.sent_tokenize without its punkt data (the download at import may fail
\* silently); the tokenizer is reached only for a non-blank text.
AnalysisFaults(transcript, env) ==
    \/ ~transcript.isStr
    \/ (strip(transcript.chars) # << >> /\ ~env.punkt)

\* What the try block returns when no step raises
AnalysisResult(text, env) ==
    LET fillers == _detect_filler_words(text)
        filler_count == fillers.count
        clarity_score == _calculate_clarity_score(text, env.flesch)
        grammar_score == _calculate_grammar_score(text)
        tone_score == _calculate_tone_score(text)
    IN  [score |-> Round2(CommScore(clarity_score, grammar_score, tone_score, filler_count)),
         filler_words_count |-> filler_count,
         filler_words |-> Range(fillers.found),
         clarity_score |-> Round2(clarity_score),
         grammar_score |-> Round2(grammar_score),
         tone_score |-> Round2(tone_score),
         suggestions |-> _generate_communication_suggestions(
                             filler_count, clarity_score, grammar_score, tone_score),
         raised |-> FALSE]

\* An analysis without the except branch: the fault reaches the caller
analyze_communication_Unguarded(transcript, env) ==
    IF AnalysisFaults(transcript, env) THEN [AnalysisError EXCEPT !.raised = TRUE]
    ELSE AnalysisResult(transcript.chars, env)

\* analyze_communication: the try block, and the except branch for any fault in it.
\* raised = TRUE would be an exception reaching the caller.
analyze_communication(transcript, env) ==
    IF AnalysisFaults(transcript, env) THEN AnalysisError
    ELSE AnalysisResult(transcript.chars, env)

(***************************************************************************)
(* LLMService: the domain-keyed tables and the technical scorer            *)
(* (services/llm_service.py)                                               *)
(***************************************************************************)

\* concept_map of _get_expected_concepts
concept_map ==
    [software |-> << "programming concepts", "software development",
                     "coding best practices", "technical implementation" >>,
     data_science |-> << "machine learning", "data analysis",
                         "statistical methods", "data processing" >>,
     electronics |-> << "circuit design", "electronic components",
                        "signal processing", "electrical principles" >>,
     general |-> << "professional experience", "problem solving",
                    "team collaboration", "technical skills" >>]

_get_expected_concepts(domain) == Get(concept_map, domain, concept_map["general"])

\* keywords of _get_domain_keywords
keywords ==
    [software |-> kw_software,
     data_science |-> kw_data_science,
     electronics |-> kw_electronics,
     general |-> kw_general]

\* A lookup whose default is the first entry of the table
_get_domain_keywords_FirstEntry(domain) == Get(keywords, domain, keywords["software"])

_get_domain_keywords(domain) == Get(keywords, domain, keywords["general"])

\* templates of _get_question_templates
templates ==
    [software |->
        [fresher |-> << "What is object-oriented programming? Explain with an example.",
                        "Describe the difference between a list and a tuple in Python.",
                        "What is the time complexity of binary search?",
                        "Explain what a REST API is.",
                        "What is version control and why is it important?" >>,
         intermediate |-> << "Explain the difference between SQL and NoSQL databases.",
                             "What is the difference between synchronous and asynchronous programming?",
                             "Describe how you would design a caching system.",
                             "What are design patterns? Give examples of common ones.",
                             "Explain microservices architecture and its benefits." >>],
     data_science |->
        [fresher |-> << "What is the difference between supervised and unsupervised learning?",
                        "Explain what overfitting means in machine learning.",
                        "What is cross-validation and why is it important?",
                        "Describe the difference between classification and regression.",
                        "What is feature engineering?" >>,
         intermediate |-> << "Explain the bias-variance tradeoff in machine learning.",
                             "How would you handle missing data in a dataset?",
                             "Describe different evaluation metrics for classification problems.",
                             "What is regularization and why is it used?",
                             "Explain the difference between bagging and boosting." >>],
     electronics |->
        [fresher |-> << "Explain Ohm's law and its applications.",
                        "What is the difference between AC and DC current?",
                        "Describe what a transistor does in a circuit.",
                        "What is a microcontroller and how does it differ from a microprocessor?",
                        "Explain the concept of voltage, current, and resistance." >>,
         intermediate |-> << "How would you design a power supply circuit?",
                             "Explain the difference between analog and digital signals.",
                             "Describe how a MOSFET works.",
                             "What is signal processing and why is it important?",
                             "Explain the concept of impedance in AC circuits." >>],
     general |->
        [fresher |-> << "Tell me about yourself.",
                        "Why do you want to work in this field?",
                        "What are your strengths and weaknesses?",
                        "Where do you see yourself in 5 years?",
                        "Why should we hire you?" >>]]

_get_question_templates(domain, experience_level) ==
    Get(Get(templates, domain, templates["general"]),
        experience_level, templates["general"]["fresher"])

\* _calculate_keyword_score: tiers of the number of domain keywords the answer contains
\* Tiers whose top is the full mark
_calculate_keyword_score_FullMarks(answer, domain) ==
    LET keyword_matches == CountContained(_get_domain_keywords(domain), lower(answer))
    IN  IF keyword_matches = 0 THEN (3 * Unit) \div 10
        ELSE IF keyword_matches < 3 THEN (5 * Unit) \div 10
        ELSE IF keyword_matches < 5 THEN (7 * Unit) \div 10
        ELSE Unit

_calculate_keyword_score(answer, domain) ==
    LET keyword_matches == CountContained(_get_domain_keywords(domain), lower(answer))
    IN  IF keyword_matches = 0 THEN (3 * Unit) \div 10
        ELSE IF keyword_matches < 3 THEN (5 * Unit) \div 10
        ELSE IF keyword_matches < 5 THEN (7 * Unit) \div 10
        ELSE (9 * Unit) \div 10

\* Tiers whose upper edges are exclusive
_calculate_length_score_Exclusive(answer) ==
    LET word_count == WordCount(answer)
    IN  IF word_count < 10 THEN (3 * Unit) \div 10
        ELSE IF word_count < 20 THEN (6 * Unit) \div 10
        ELSE IF word_count < 100 THEN (9 * Unit) \div 10
        ELSE IF word_count < 150 THEN (8 * Unit) \div 10
        ELSE (7 * Unit) \div 10

\* Tiers that do not penalise a long answer
_calculate_length_score_FlatLong(answer) ==
    LET word_count == WordCount(answer)
    IN  IF word_count < 10 THEN (3 * Unit) \div 10
        ELSE IF word_count < 20 THEN (6 * Unit) \div 10
        ELSE (9 * Unit) \div 10

\* _calculate_length_score: tiers of the word count
_calculate_length_score(answer) ==
    LET word_count == WordCount(answer)
    IN  IF word_count < 10 THEN (3 * Unit) \div 10
        ELSE IF word_count < 20 THEN (6 * Unit) \div 10
        ELSE IF word_count <= 100 THEN (9 * Unit) \div 10
        ELSE IF word_count <= 150 THEN (8 * Unit) \div 10
        ELSE (7 * Unit) \div 10

\* The tier the thresholds 0.7 and 0.5 select
Tier(score) ==
    IF score >= (7 * Unit) \div 10 THEN "top"
    ELSE IF score >= (5 * Unit) \div 10 THEN "middle"
    ELSE "bottom"

\* _generate_technical_feedback: one of three texts, each naming the domain
_generate_technical_feedback(domain, score) ==
    IF Tier(score) = "top"
    THEN << "Good answer! You demonstrated understanding.", domain >>
    ELSE IF Tier(score) = "middle"
    THEN << "Your answer shows basic understanding.", domain >>
    ELSE << "Your answer needs more depth.", domain >>

\* _get_improvement_suggestions: one of three lists
_get_improvement_suggestions(domain, score) ==
    IF Tier(score) = "top"
    THEN << "Great job! Continue practicing to maintain consistency.",
            "Try to add more real-world examples to your answers." >>
    ELSE IF Tier(score) = "middle"
    THEN << "Review fundamental concepts in your domain.",
            "Practice explaining technical concepts in simple terms.",
            "Prepare specific examples from your experience." >>
    ELSE << "Focus on understanding core concepts in your domain.",
            "Practice answering questions out loud.",
            "Study common interview questions for your field.",
            "Work on structuring your answers clearly." >>

\* The semantic score of lines 250-253 from the two cosine similarities
\* (q: answer against question, c: mean of answer against each concept)
SemanticFromCosines(q, c) == (((q * 4 + c * 6) \div 10) + Unit) \div 2

\* The fallback of _calculate_semantic_score (lines 218 and 258)
NeutralSemantic == Unit \div 2

\* The composite of evaluate_response (lines 184-190)
TechScore(semantic_score, keyword_score, length_score) ==
    Clamp01((semantic_score * 5 + keyword_score * 3 + length_score * 2) \div 10)

\* The result of the except branch of evaluate_response
EvaluationError ==
    [score |-> Unit \div 2,
     correctness |-> Unit \div 2,
     completeness |-> Unit \div 2,
     relevance |-> Unit \div 2,
     feedback |-> << "Evaluation error occurred" >>,
     suggestions |-> << >>,
     raised |-> FALSE]

\* A step of evaluate_response after the semantic score raises: answer.lower() and
\* answer.split() on a value that is no string
EvaluationFaults(answer) == ~answer.isStr

\* What the try block of evaluate_response returns, given the semantic score
EvaluationResult(semantic_score, answer, domain) ==
    LET keyword_score == _calculate_keyword_score(answer, domain)
        length_score == _calculate_length_score(answer)
        score == TechScore(semantic_score, keyword_score, length_score)
    IN  [score |-> Round2(score),
         correctness |-> Round2(semantic_score),
         completeness |-> Round2(length_score),
         relevance |-> Round2(keyword_score),
         feedback |-> _generate_technical_feedback(domain, score),
         suggestions |-> _get_improvement_suggestions(domain, score),
         raised |-> FALSE]

\* An evaluation without the except branch: the fault reaches the caller
evaluate_response_Unguarded(semantic_score, answer, domain) ==
    IF EvaluationFaults(answer) THEN [EvaluationError EXCEPT !.raised = TRUE]
    ELSE EvaluationResult(semantic_score, answer.chars, domain)

\* evaluate_response from line 180 on: the try block, and the except branch
evaluate_response(semantic_score, answer, domain) ==
    IF EvaluationFaults(answer) THEN EvaluationError
    ELSE EvaluationResult(semantic_score, answer.chars, domain)

(***************************************************************************)
(* ReportService (services/report_service.py)                              *)
(***************************************************************************)

\* {}: the dict with no key
EmptyDict == << >>

\* A feedback_history entry that is no dict (f.get raises AttributeError on it)
NotADict == [not_a_dict |-> TRUE]

IsDict(f) == "not_a_dict" \notin DOMAIN f

\* f.get("communication", {}).get(field, 0)
CommField(f, field) == Get(Get(f, "communication", EmptyDict), field, 0)

\* f.get("technical", {}).get("score", 0.0)
TechField(f) == Get(Get(f, "technical", EmptyDict), "score", 0)

RECURSIVE SumSeq(_)
SumSeq(values) ==
    IF values = << >> THEN 0 ELSE Head(values) + SumSeq(Tail(values))

\* sum(Val(f) for f in history)
SumOver(Val(_), history) == SumSeq([i \in DOMAIN history |-> Val(history[i])])

CommScoreOf(f) == CommField(f, "score")

FillersOf(f) == CommField(f, "filler_words_count")

ClarityOf(f) == CommField(f, "clarity_score")

OverallOf(f) == Get(f, "overall_score", 0)

\* round(total / n, 2), to the nearest cent
RoundMean2(total, n) == ((2 * total + n * Cent) \div (2 * n * Cent)) * Cent

\* total / n to one decimal, in tenths (the f"{avg_fillers:.1f}" of line 189)
Tenths(total, n) == (20 * total + n) \div (2 * n)

_calculate_statistics(feedback_history) ==
    IF feedback_history = << >>
    THEN [overall_score |-> 0,
          avg_communication |-> 0,
          avg_technical |-> 0,
          total_filler_words |-> 0,
          avg_clarity |-> 0]
    ELSE LET n == Len(feedback_history)
         IN  [overall_score |-> RoundMean2(SumOver(OverallOf, feedback_history), n),
              avg_communication |-> RoundMean2(SumOver(CommScoreOf, feedback_history), n),
              avg_technical |-> RoundMean2(SumOver(TechField, feedback_history), n),
              total_filler_words |-> SumOver(FillersOf, feedback_history),
              avg_clarity |-> RoundMean2(SumOver(ClarityOf, feedback_history), n),
              sessions_completed |-> n]

\* sum / n >= tenths / 10, without dividing
MeanAtLeast(total, n, tenths) == 10 * total >= tenths * Unit * n

_identify_strengths(feedback_history) ==
    IF feedback_history = << >> THEN << << "No data available" >> >>
    ELSE LET n == Len(feedback_history)
             comm == SumOver(CommScoreOf, feedback_history)
             tech == SumOver(TechField, feedback_history)
             fillers == SumOver(FillersOf, feedback_history)
             clarity == SumOver(ClarityOf, feedback_history)
             strengths ==
                 (IF MeanAtLeast(comm, n, 7) THEN << << "Strong communication skills" >> >>
                  ELSE IF MeanAtLeast(comm, n, 6) THEN << << "Good communication foundation" >> >>
                  ELSE << >>)
                 \o (IF MeanAtLeast(tech, n, 7) THEN << << "Solid technical knowledge" >> >>
                     ELSE IF MeanAtLeast(tech, n, 6) THEN << << "Good technical understanding" >> >>
                     ELSE << >>)
                 \o (IF fillers < 3 * n THEN << << "Minimal use of filler words" >> >> ELSE << >>)
                 \o (IF MeanAtLeast(clarity, n, 7)
                     THEN << << "Clear and articulate responses" >> >> ELSE << >>)
         IN  IF strengths = << >> THEN << << "Shows potential with practice" >> >> ELSE strengths

\* _identify_weaknesses from line 164 on: the rules, for a history that is not empty
WeaknessRules(feedback_history) ==
         LET n == Len(feedback_history)
             comm == SumOver(CommScoreOf, feedback_history)
             tech == SumOver(TechField, feedback_history)
             fillers == SumOver(FillersOf, feedback_history)
             clarity == SumOver(ClarityOf, feedback_history)
             weaknesses ==
                 (IF ~MeanAtLeast(comm, n, 6)
                  THEN << << "Communication skills need improvement" >> >> ELSE << >>)
                 \o (IF ~MeanAtLeast(tech, n, 6)
                     THEN << << "Technical knowledge needs strengthening" >> >> ELSE << >>)
                 \o (IF fillers > 5 * n
                     THEN << << "High use of filler words (average)", Tenths(fillers, n) >> >>
                     ELSE << >>)
                 \o (IF ~MeanAtLeast(clarity, n, 6)
                     THEN << << "Response clarity needs improvement" >> >> ELSE << >>)
         IN  IF weaknesses = << >>
             THEN << << "Continue practicing to maintain performance" >> >>
             ELSE weaknesses

\* An empty history taken for one in which no rule fires
_identify_weaknesses_NoEmptyCase(feedback_history) ==
    IF feedback_history = << >>
    THEN << << "Continue practicing to maintain performance" >> >>
    ELSE WeaknessRules(feedback_history)

_identify_weaknesses(feedback_history) ==
    IF feedback_history = << >> THEN << << "Complete more sessions for analysis" >> >>
    ELSE WeaknessRules(feedback_history)

\* The blocks of _generate_improvement_plan; the technical block names the domain
CommunicationBlock ==
    [area |-> "Communication", priority |-> "High", domain |-> << >>]

TechnicalBlock(domain) ==
    [area |-> "Technical Knowledge", priority |-> "High", domain |-> << domain >>]

FillerBlock ==
    [area |-> "Filler Words", priority |-> "Medium", domain |-> << >>]

MaintenanceBlock ==
    [area |-> "Maintenance", priority |-> "Low", domain |-> << >>]

\* A plan whose filler block follows the weaknesses list it is given
_generate_improvement_plan_FromWeaknesses(weaknesses, domain, stats) ==
    LET plan ==
            (IF stats["avg_communication"] < (7 * Unit) \div 10
             THEN << CommunicationBlock >> ELSE << >>)
            \o (IF stats["avg_technical"] < (7 * Unit) \div 10
                THEN << TechnicalBlock(domain) >> ELSE << >>)
            \o (IF \E i \in DOMAIN weaknesses :
                       weaknesses[i][1] = "High use of filler words (average)"
                THEN << FillerBlock >> ELSE << >>)
    IN  IF plan = << >> THEN << MaintenanceBlock >> ELSE plan

\* A plan whose filler block waits for more than 12 fillers
_generate_improvement_plan_LaterFillerGate(weaknesses, domain, stats) ==
    LET plan ==
            (IF stats["avg_communication"] < (7 * Unit) \div 10
             THEN << CommunicationBlock >> ELSE << >>)
            \o (IF stats["avg_technical"] < (7 * Unit) \div 10
                THEN << TechnicalBlock(domain) >> ELSE << >>)
            \o (IF stats["total_filler_words"] > 12 THEN << FillerBlock >> ELSE << >>)
    IN  IF plan = << >> THEN << MaintenanceBlock >> ELSE plan

_generate_improvement_plan(weaknesses, domain, stats) ==
    LET plan ==
            (IF stats["avg_communication"] < (7 * Unit) \div 10
             THEN << CommunicationBlock >> ELSE << >>)
            \o (IF stats["avg_technical"] < (7 * Unit) \div 10
                THEN << TechnicalBlock(domain) >> ELSE << >>)
            \o (IF stats["total_filler_words"] > 10 THEN << FillerBlock >> ELSE << >>)
    IN  IF plan = << >> THEN << MaintenanceBlock >> ELSE plan

_generate_recommendations(domain, stats) ==
    (IF stats["overall_score"] >= (7 * Unit) \div 10
     THEN << << "Excellent performance! You're well-prepared for interviews." >>,
             << "Continue practicing to maintain your skills and confidence." >> >>
     ELSE IF stats["overall_score"] >= (5 * Unit) \div 10
     THEN << << "You're making good progress. Focus on identified weak areas." >>,
             << "Practice more frequently to build consistency." >> >>
     ELSE << << "Focus on fundamentals before moving to advanced topics." >>,
             << "Consider structured learning programs for your domain." >> >>)
    \o << << "Practice specific questions regularly.", domain >>,
          << "Record your practice sessions and review them critically." >> >>

\* A step of the try block of generate_report raises: an entry of the history
\* that is no dict
ReportFaults(session_data) ==
    LET feedback_history == Get(session_data, "feedback_history", << >>)
    IN  \E i \in DOMAIN feedback_history : ~IsDict(feedback_history[i])

\* The result of the except branch of generate_report
ReportError ==
    [error |-> "'str' object has no attribute 'get'",
     message |-> "Report generation failed"]

\* The report of lines 45-61; now is datetime.now()
ReportOf(session_data, domain, now) ==
    LET questions == Get(session_data, "questions", << >>)
        feedback_history == Get(session_data, "feedback_history", << >>)
        stats == _calculate_statistics(feedback_history)
        strengths == _identify_strengths(feedback_history)
        weaknesses == _identify_weaknesses(feedback_history)
        improvement_plan == _generate_improvement_plan(weaknesses, domain, stats)
    IN  [session_id |-> Get(session_data, "session_id", "None"),
         domain |-> domain,
         date |-> now,
         summary |-> [total_questions |-> Len(questions),
                      overall_score |-> stats["overall_score"],
                      communication_score |-> stats["avg_communication"],
                      technical_score |-> stats["avg_technical"]],
         statistics |-> stats,
         strengths |-> strengths,
         weaknesses |-> weaknesses,
         improvement_plan |-> improvement_plan,
         detailed_feedback |-> feedback_history,
         recommendations |-> _generate_recommendations(domain, stats)]

\* What generate_report returns: the report of the try block, or the error dict
ReportResult(session_data, domain, now) ==
    IF ReportFaults(session_data) THEN ReportError ELSE ReportOf(session_data, domain, now)

\* A synthesizer that records each report in the history it was given
generate_report_Appends(session_data, domain, now) ==
    [report |-> ReportResult(session_data, domain, now),
     session_data |-> IF "feedback_history" \in DOMAIN session_data
                      THEN [session_data EXCEPT !["feedback_history"] = Append(@, EmptyDict)]
                      ELSE session_data,
     raised |-> FALSE]

\* generate_report: the report it returns and the session_data object as the call
\* leaves it (the code only reads it)
generate_report(session_data, domain, now) ==
    [report |-> ReportResult(session_data, domain, now),
     session_data |-> session_data,
     raised |-> FALSE]

(***************************************************************************)
(* Inputs                                                                  *)
(***************************************************************************)

\* The domain values requests carry: the four keys of the tables, a domain that
\* is no key, a key in another case, and the empty string
Domains == {"software", "data_science", "electronics", "general", "finance", "Software", ""}

ExperienceLevels == {"fresher", "intermediate", "senior"}

Texts ==
    {TxtEmpty, TxtBlank, TxtUm, TxtGood, TxtStrong, TxtLikely, TxtSix, TxtEleven, TxtRepeat}

\* The transcripts the websocket and the scorers called on their own are given
SpokenTexts == Texts \cup {TxtSixCodes, TxtFillersThenCodes, TxtGoGo, TxtFive, TxtTen}

\* An answer of n one-letter words
Words(n) == [i \in 1..(2 * n - 1) |-> IF i % 2 = 1 THEN "a" ELSE " "]

\* The longest answer of the model, in words
MaxWords == 152

\* An answer of every length from none to MaxWords words
Answers == {Words(n) : n \in 0..MaxWords}

\* What the environment of one analysis is: whether the punkt data of nltk is
\* installed, and what textstat.flesch_reading_ease returns (any number, the
\* index is not confined to 0..100) or that it raises
FleschOutcomes ==
    {[ok |-> FALSE, value |-> 0]} \cup {[ok |-> TRUE, value |-> v] : v \in {-20, 65, 121}}

Environments ==
    {[punkt |-> TRUE, flesch |-> f] : f \in FleschOutcomes}
    \cup {[punkt |-> FALSE, flesch |-> [ok |-> FALSE, value |-> 0]]}

\* The cosine similarities an encoding can lead to: a cosine lies in [-1, 1]
Cosines == {0 - Unit, 0 - (39 * Unit) \div 100, (392 * Unit) \div 1000, Unit}

\* The lengths the cleaned-up generated question can have (line 114 asks 10 < len < 200)
GeneratedLengths == {0, 10, 11, 199, 200}

(***************************************************************************)
(* State                                                                   *)
(***************************************************************************)

VARIABLES
    text_generator,     \* LLMService.text_generator: "None" or "pipeline"
    semantic_model,     \* LLMService.semantic_model: "None" or "model"
    _models_loaded,     \* LLMService._models_loaded
    _loading,           \* LLMService._loading
    loader,             \* where the loader thread is: "unstarted", a line of
                        \* _load_models_sync, or "finished"
    load_starts,        \* how many times a thread running _load_models_sync was started
    q,                  \* the generate_question call in progress
    e,                  \* the turn evaluation in progress
    reports,            \* the last generate_report call: << >> before the first,
                        \* then << its arguments and what it returned >>
    sessions            \* the InterviewSession objects start_interview has built,
                        \* in the order of their construction

vars ==
    << text_generator, semantic_model, _models_loaded, _loading, loader, load_starts,
       q, e, reports, sessions >>

gate_vars == << text_generator, semantic_model, _models_loaded, _loading, loader, load_starts >>

\* The Capability Gate as the spec names its states
Gate ==
    IF _models_loaded THEN "ready"
    ELSE IF loader = "finished" THEN "failed"
    ELSE IF _loading THEN "loading"
    ELSE "unloaded"

\* schemas.py, line 12: the default of session_id is str(uuid.uuid4()), a value
\* computed once, when the class body runs at import
DefaultSessionId == "uuid4 drawn at import"

\* InterviewSession(domain=..., experience_level=..., current_question=...,
\* questions_asked=...): the fields a turn could change, with their defaults
InterviewSession(questions_asked) ==
    [session_id |-> DefaultSessionId,
     questions_asked |-> questions_asked,
     answers |-> << >>,
     feedback_history |-> << >>]

\* How many interviews are started
MaxSessions == 2

\* seen_ready: what the call last read from _models_loaded; length: len(question)
\* of the cleaned-up generated text at line 114
QIdle ==
    [pc |-> "idle", domain |-> "", experience_level |-> "", sleeps |-> 0,
     seen_ready |-> FALSE, length |-> 0,
     kind |-> "none", question |-> "", raised |-> FALSE]

EIdle ==
    [pc |-> "idle", entry |-> "", transcript |-> Str(<< >>), domain |-> "",
     session_id |-> "None", fillers |-> EmptyDict,
     env |-> [punkt |-> TRUE, flesch |-> [ok |-> FALSE, value |-> 0]],
     seen_ready |-> FALSE, encodes |-> 0, semantic |-> 0,
     comm |-> EmptyDict, tech |-> EmptyDict, overall_score |-> 0]

\* The fields as __init__ leaves them at lines 26-29, before it starts the thread
Init ==
    /\ text_generator = "None"
    /\ semantic_model = "None"
    /\ _models_loaded = FALSE
    /\ _loading = FALSE
    /\ loader = "unstarted"
    /\ load_starts = 0
    /\ q = QIdle
    /\ e = EIdle
    /\ reports = << >>
    /\ sessions = << >>

(***************************************************************************)
(* LLMService.__init__ and the loader thread                               *)
(***************************************************************************)

\* __init__, lines 32-34: start the daemon thread and return
StartLoadThread ==
    /\ loader = "unstarted"
    /\ loader' = "L39"
    /\ load_starts' = load_starts + 1
    /\ UNCHANGED << text_generator, semantic_model, _models_loaded, _loading, q, e, reports, sessions >>

\* __init__ has returned: main.py builds the service before it serves a request
Constructed == loader # "unstarted"

\* line 39: if self._loading: return (through the finally block)
LoaderEnter ==
    /\ loader = "L39"
    /\ loader' = IF _loading THEN "L72" ELSE "L41"
    /\ UNCHANGED << text_generator, semantic_model, _models_loaded, _loading, load_starts,
                    q, e, reports, sessions >>

\* line 41
LoaderSetLoading ==
    /\ loader = "L41"
    /\ _loading' = TRUE
    /\ loader' = "L48"
    /\ UNCHANGED << text_generator, semantic_model, _models_loaded, load_starts, q, e, reports, sessions >>

\* A loader that reports the models loaded as soon as the generator is
LoaderLoadGenerator_SetsLoaded ==
    /\ loader = "L48"
    /\ \/ text_generator' = "pipeline" /\ loader' = "L61" /\ _models_loaded' = TRUE
       \/ text_generator' = text_generator /\ loader' = "L67" /\ _models_loaded' = _models_loaded
    /\ UNCHANGED << semantic_model, _loading, load_starts, q, e, reports, sessions >>

\* lines 48-55: pipeline(...) returns the generator, or raises
LoaderLoadGenerator ==
    /\ loader = "L48"
    /\ \/ text_generator' = "pipeline" /\ loader' = "L61"
       \/ text_generator' = text_generator /\ loader' = "L67"
    /\ UNCHANGED << semantic_model, _models_loaded, _loading, load_starts, q, e, reports, sessions >>

\* line 61: SentenceTransformer(...) returns the model, or raises
LoaderLoadSemantic ==
    /\ loader = "L61"
    /\ \/ semantic_model' = "model" /\ loader' = "L64"
       \/ semantic_model' = semantic_model /\ loader' = "L67"
    /\ UNCHANGED << text_generator, _models_loaded, _loading, load_starts, q, e, reports, sessions >>

\* line 64
LoaderSetLoaded ==
    /\ loader = "L64"
    /\ _models_loaded' = TRUE
    /\ loader' = "L72"
    /\ UNCHANGED << text_generator, semantic_model, _loading, load_starts, q, e, reports, sessions >>

\* lines 67-70: the except branch
LoaderExcept ==
    /\ loader = "L67"
    /\ _models_loaded' = FALSE
    /\ loader' = "L72"
    /\ UNCHANGED << text_generator, semantic_model, _loading, load_starts, q, e, reports, sessions >>

\* A loader that tries again when the load has failed
LoaderFinally_Retries ==
    /\ loader = "L72"
    /\ _loading' = FALSE
    /\ loader' = IF _models_loaded THEN "finished" ELSE "L41"
    /\ UNCHANGED << text_generator, semantic_model, _models_loaded, load_starts, q, e, reports, sessions >>

\* lines 71-72: the finally block; the thread ends
LoaderFinally ==
    /\ loader = "L72"
    /\ _loading' = FALSE
    /\ loader' = "finished"
    /\ UNCHANGED << text_generator, semantic_model, _models_loaded, load_starts, q, e, reports, sessions >>

Loader ==
    \/ LoaderEnter
    \/ LoaderSetLoading
    \/ LoaderLoadGenerator
    \/ LoaderLoadSemantic
    \/ LoaderSetLoaded
    \/ LoaderExcept
    \/ LoaderFinally

\* No request is being handled.  The handlers share no state but the gate, which
\* they only read, so requests are taken one at a time; the loader thread runs
\* between any two steps of a handler.
NoRequest == q.pc = "idle" /\ e.pc = "idle"

(***************************************************************************)
(* LLMService.generate_question                                            *)
(***************************************************************************)

\* lines 87 and 90: what the call does on reading _models_loaded, first ("L87")
\* and after the sleep ("L90")
FirstCheckGoes(models_loaded) == IF ~models_loaded THEN "L89" ELSE "L101"

\* A recheck that goes back to sleep until the models are loaded
RecheckGoes_Polls(models_loaded) == IF ~models_loaded THEN "L89" ELSE "L101"

RecheckGoes(models_loaded) == IF ~models_loaded THEN "template" ELSE "L101"

\* lines 108-120: the generated text is kept when 10 < len < 200
KeepsGenerated(length) == length > 10 /\ length < 200

\* start_interview (main.py) calls generate_question(domain, experience_level)
QuestionRequest ==
    /\ Constructed
    /\ NoRequest
    /\ Len(sessions) < MaxSessions
    /\ \E domain \in Domains, level \in ExperienceLevels :
          q' = [QIdle EXCEPT !.pc = "L87", !.domain = domain, !.experience_level = level]
    /\ UNCHANGED << gate_vars, e, reports, sessions >>

\* A handler that starts the loader again when it finds the load failed
QuestionCheck_StartsLoad ==
    /\ q.pc = "L87"
    /\ q' = [q EXCEPT !.pc = FirstCheckGoes(_models_loaded), !.seen_ready = _models_loaded]
    /\ IF ~_models_loaded /\ loader = "finished"
       THEN loader' = "L39" /\ load_starts' = load_starts + 1
       ELSE UNCHANGED << loader, load_starts >>
    /\ UNCHANGED << text_generator, semantic_model, _models_loaded, _loading, e, reports, sessions >>

\* line 87: if not self._models_loaded
QuestionCheck ==
    /\ q.pc = "L87"
    /\ q' = [q EXCEPT !.pc = FirstCheckGoes(_models_loaded), !.seen_ready = _models_loaded]
    /\ UNCHANGED << gate_vars, e, reports, sessions >>

\* line 89: await asyncio.sleep(1) returns
QuestionSleep ==
    /\ q.pc = "L89"
    /\ q' = [q EXCEPT !.pc = "L90", !.sleeps = @ + 1]
    /\ UNCHANGED << gate_vars, e, reports, sessions >>

\* random.choice(self._get_question_templates(domain, experience_level))
ReturnsTemplate(question) ==
    /\ question \in Range(_get_question_templates(q.domain, q.experience_level))
    /\ q' = [q EXCEPT !.pc = "done", !.kind = "template", !.question = question]

\* lines 90-94: the recheck; still not loaded: a template
QuestionRecheck ==
    /\ q.pc = "L90"
    /\ IF RecheckGoes(_models_loaded) = "template"
       THEN \E question \in Range(_get_question_templates(q.domain, q.experience_level)) :
               ReturnsTemplate(question)
       ELSE q' = [q EXCEPT !.pc = RecheckGoes(_models_loaded), !.seen_ready = _models_loaded]
    /\ UNCHANGED << gate_vars, e, reports, sessions >>

\* lines 97-127: _generate_text in the executor returns the prompt and a
\* continuation, or the prompt alone when generation raised; the text after
\* "Question:" is returned when its length is accepted, a template otherwise
QuestionGenerate ==
    /\ q.pc = "L101"
    /\ \E length \in GeneratedLengths :
          IF KeepsGenerated(length)
          THEN q' = [q EXCEPT !.pc = "done", !.kind = "generated", !.length = length,
                              !.question = "generated text"]
          ELSE \E question \in Range(_get_question_templates(q.domain, q.experience_level)) :
                  q' = [q EXCEPT !.pc = "done", !.kind = "template", !.length = length,
                                 !.question = question]
    /\ UNCHANGED << gate_vars, e, reports, sessions >>

\* start_interview, lines 69-80: the InterviewSession is built around the question
\* and its session_id is returned; the handler keeps no reference to the object
QuestionReturn ==
    /\ q.pc = "done"
    /\ q' = QIdle
    /\ sessions' = Append(sessions, InterviewSession(1))
    /\ UNCHANGED << gate_vars, e, reports >>

(***************************************************************************)
(* A turn evaluation: analyze_communication, evaluate_response and the     *)
(* evaluate endpoint of main.py                                            *)
(***************************************************************************)

\* A gate check that looks at the model handle alone
SemanticFallsBack_HandleOnly(models_loaded, model) == model = "None"

\* line 216: if not self._models_loaded or self.semantic_model is None
SemanticFallsBack(models_loaded, model) == ~models_loaded \/ model = "None"

\* The session_id a FeedbackRequest carries (Optional, default None): that of
\* the client's interview once one was started
RequestSessionIds ==
    IF sessions = << >> THEN {"None"} ELSE {sessions[i].session_id : i \in DOMAIN sessions}

\* POST /api/interview/evaluate: FeedbackRequest admits only strings
EvaluateRequest ==
    /\ Constructed
    /\ NoRequest
    /\ \E text \in Texts, domain \in Domains, session_id \in RequestSessionIds :
          e' = [EIdle EXCEPT !.pc = "L120", !.entry = "http",
                             !.transcript = Str(text), !.domain = domain,
                             !.session_id = session_id]
    /\ UNCHANGED << gate_vars, q, reports, sessions >>

\* The "evaluate" message of the websocket: analyze_communication alone, on
\* data["transcript"] whatever its JSON type
WebsocketEvaluate ==
    /\ Constructed
    /\ NoRequest
    /\ \E transcript \in {Str(text) : text \in SpokenTexts} \cup {NotAString} :
          e' = [EIdle EXCEPT !.pc = "L120", !.entry = "ws", !.transcript = transcript]
    /\ UNCHANGED << gate_vars, q, reports, sessions >>

\* evaluate_response called as a method, with an answer of any Python type
EvaluateCall ==
    /\ Constructed
    /\ NoRequest
    /\ \E transcript \in {Str(text) : text \in Texts} \cup {NotAString}, domain \in Domains :
          e' = [EIdle EXCEPT !.pc = "L216", !.entry = "call",
                             !.transcript = transcript, !.domain = domain]
    /\ UNCHANGED << gate_vars, q, reports, sessions >>

\* evaluate_response called as a method on an answer of each length
EvaluateAnswer ==
    /\ Constructed
    /\ NoRequest
    /\ \E answer \in Answers :
          e' = [EIdle EXCEPT !.pc = "L216", !.entry = "call",
                             !.transcript = Str(answer), !.domain = "software"]
    /\ UNCHANGED << gate_vars, q, reports, sessions >>

\* AnalysisService._detect_filler_words called on a transcript
AnalysisDetectFillers ==
    /\ Constructed
    /\ NoRequest
    /\ \E text \in SpokenTexts :
          e' = [EIdle EXCEPT !.pc = "done", !.entry = "analysis_fillers",
                             !.transcript = Str(text),
                             !.fillers = _detect_filler_words(text)]
    /\ UNCHANGED << gate_vars, q, reports, sessions >>

\* AudioService.detect_filler_words called on a transcript
AudioDetectFillers ==
    /\ Constructed
    /\ NoRequest
    /\ \E text \in SpokenTexts :
          e' = [EIdle EXCEPT !.pc = "done", !.entry = "audio_fillers",
                             !.transcript = Str(text),
                             !.fillers = detect_filler_words(text)]
    /\ UNCHANGED << gate_vars, q, reports, sessions >>

\* What analyze_communication returns for each transcript a handler passes it, in
\* each environment: the method is a function of the two, tabulated once
Analyses ==
    [call \in (({Str(text) : text \in SpokenTexts} \cup {NotAString}) \X Environments) |->
        analyze_communication(call[1], call[2])] @@ << >>

\* analyze_communication(transcript): no await inside, one step
EvalCommunication ==
    /\ e.pc = "L120"
    /\ \E env \in Environments :
          e' = [e EXCEPT !.env = env,
                         !.comm = Analyses[<< e.transcript, env >>],
                         !.pc = IF e.entry = "ws" THEN "done" ELSE "L216"]
    /\ UNCHANGED << gate_vars, q, reports, sessions >>

\* _calculate_semantic_score, lines 216-229: the gate is read once; not ready:
\* 0.5 at once; ready: the encoding is handed to the executor
EvalSemanticCheck ==
    /\ e.pc = "L216"
    /\ IF SemanticFallsBack(_models_loaded, semantic_model)
       THEN e' = [e EXCEPT !.seen_ready = _models_loaded,
                           !.semantic = NeutralSemantic, !.pc = "L180"]
       ELSE e' = [e EXCEPT !.seen_ready = _models_loaded,
                           !.encodes = @ + 1, !.pc = "L225"]
    /\ UNCHANGED << gate_vars, q, reports, sessions >>

\* lines 225-258: the encoding returns and the cosines are combined, or a step
\* raises (as encoding a value that is no string does) and the score is 0.5
EvalEncode ==
    /\ e.pc = "L225"
    /\ \/ /\ e.transcript.isStr
          /\ \E qc \in Cosines, cc \in Cosines :
                e' = [e EXCEPT !.semantic = SemanticFromCosines(qc, cc), !.pc = "L180"]
       \/ e' = [e EXCEPT !.semantic = NeutralSemantic, !.pc = "L180"]
    /\ UNCHANGED << gate_vars, q, reports, sessions >>

\* evaluate_response, lines 180-211
EvalTechnical ==
    /\ e.pc = "L180"
    /\ e' = [e EXCEPT !.tech = evaluate_response(e.semantic, e.transcript, e.domain),
                      !.pc = IF e.entry = "http" THEN "L132" ELSE "done"]
    /\ UNCHANGED << gate_vars, q, reports, sessions >>

\* main.py, line 135
OverallScore(comm_analysis, tech_analysis) ==
    (comm_analysis["score"] + tech_analysis["score"]) \div 2

\* main.py, lines 132-138: the feedback of the endpoint
EvalCombine ==
    /\ e.pc = "L132"
    /\ e' = [e EXCEPT !.overall_score = OverallScore(e.comm, e.tech), !.pc = "done"]
    /\ UNCHANGED << gate_vars, q, reports, sessions >>

EvalReturn ==
    /\ e.pc = "done"
    /\ e' = EIdle
    /\ UNCHANGED << gate_vars, q, reports, sessions >>

(***************************************************************************)
(* The report endpoint                                                     *)
(***************************************************************************)

\* A TurnFeedback as the evaluate endpoint returns it, reduced to what the report reads
Turn(comm, fillers, clarity, tech) ==
    [communication |-> [score |-> comm, filler_words_count |-> fillers,
                        clarity_score |-> clarity],
     technical |-> [score |-> tech],
     overall_score |-> (comm + tech) \div 2]

\* The longest session history of the model
MaxHistory == 2

\* The turns a history is made of: a strong turn, a weak turn of 6 fillers that
\* lacks clarity_score, technical and overall_score, a turn whose scores lie
\* just under 0.7, and an entry that is no dict.  No mean of these scores falls
\* halfway between two cents, where round() of the float mean is not the
\* half-up of RoundMean2.
SampleTurns ==
    { Turn((86 * Unit) \div 100, 1, (80 * Unit) \div 100, (74 * Unit) \div 100),
      [communication |-> [score |-> (40 * Unit) \div 100, filler_words_count |-> 6]],
      Turn((698 * Unit) \div 1000, 2, (697 * Unit) \div 1000, (696 * Unit) \div 1000),
      NotADict }

Histories == UNION {[1..n -> SampleTurns] : n \in 0..MaxHistory}

\* session_data of a ReportRequest: any dict; {} and dicts with a feedback_history
Sessions ==
    {EmptyDict}
    \cup {[session_id |-> "s1", questions |-> << "q1", "q2" >>, feedback_history |-> h] :
             h \in Histories}

ReportDomains == {"software", "finance"}

\* The values datetime.now() takes
Timestamps == {"t1", "t2"}

\* POST /api/report/generate: report_service.generate_report(session_data, domain);
\* the call has no await inside, one step
GenerateReport ==
    /\ \E session_data \in Sessions, domain \in ReportDomains, now \in Timestamps :
          LET result == generate_report(session_data, domain, now)
          IN  reports' = << [session_data |-> session_data,
                             domain |-> domain,
                             now |-> now,
                             report |-> result.report,
                             raised |-> result.raised,
                             session_data_after |-> result.session_data,
                             repeated |-> /\ reports # << >>
                                          /\ reports[1].session_data = session_data
                                          /\ reports[1].domain = domain] >>
    /\ UNCHANGED << gate_vars, q, e, sessions >>

(***************************************************************************)
(* Specifications                                                          *)
(***************************************************************************)

Next ==
    \/ StartLoadThread
    \/ Loader
    \/ QuestionRequest
    \/ QuestionCheck
    \/ QuestionSleep
    \/ QuestionRecheck
    \/ QuestionGenerate
    \/ QuestionReturn
    \/ EvaluateRequest
    \/ WebsocketEvaluate
    \/ EvaluateCall
    \/ AnalysisDetectFillers
    \/ AudioDetectFillers
    \/ EvalCommunication
    \/ EvalSemanticCheck
    \/ EvalEncode
    \/ EvalTechnical
    \/ EvalCombine
    \/ EvalReturn

\* The service, its loader thread and the handlers that use it
Spec == Init /\ [][Next]_vars

\* The loader thread and generate_question alone
QuestionNext ==
    \/ StartLoadThread
    \/ Loader
    \/ QuestionRequest
    \/ QuestionCheck
    \/ QuestionSleep
    \/ QuestionRecheck
    \/ QuestionGenerate
    \/ QuestionReturn

\* The event loop resumes a coroutine that can run: the check is made, the
\* one-second timer of asyncio.sleep fires, and the executor returns from the
\* bounded text generation.  Nothing is assumed of the loader thread.
QuestionFairness ==
    /\ WF_vars(QuestionCheck)
    /\ WF_vars(QuestionSleep)
    /\ WF_vars(QuestionRecheck)
    /\ WF_vars(QuestionGenerate)

QuestionSpec == Init /\ [][QuestionNext]_vars /\ QuestionFairness

\* The loader thread and evaluate_response on answers of every length
LengthNext ==
    \/ StartLoadThread
    \/ Loader
    \/ EvaluateAnswer
    \/ EvalSemanticCheck
    \/ EvalEncode
    \/ EvalTechnical
    \/ EvalReturn

LengthSpec == Init /\ [][LengthNext]_vars

\* The report synthesizer, which shares no state with the rest
ReportNext == GenerateReport

ReportSpec == Init /\ [][ReportNext]_vars

(***************************************************************************)
(* Properties                                                              *)
(***************************************************************************)

\* analyze_communication has returned in the evaluation in progress
CommDone == e.entry \in {"http", "ws"} /\ e.pc \notin {"idle", "L120"}

\* evaluate_response has returned in the evaluation in progress
TechDone == e.entry \in {"http", "call"} /\ e.pc \in {"L132", "done"}

InUnitRange(x) == 0 <= x /\ x <= Unit

\* C1: every numeric score that analyze_communication and evaluate_response
\* return, and the overall_score the evaluate endpoint computes from them, lies
\* in [0,1], for every transcript and domain and in every gate state.
C1_ScoresInRange ==
    /\ CommDone =>
          /\ InUnitRange(e.comm["score"])
          /\ InUnitRange(e.comm["clarity_score"])
          /\ InUnitRange(e.comm["grammar_score"])
          /\ InUnitRange(e.comm["tone_score"])
    /\ TechDone =>
          /\ InUnitRange(e.tech["score"])
          /\ InUnitRange(e.tech["correctness"])
          /\ InUnitRange(e.tech["completeness"])
          /\ InUnitRange(e.tech["relevance"])
    /\ (e.entry = "http" /\ e.pc = "done") => InUnitRange(e.overall_score)

\* An evaluation of a non-blank transcript is done whose readability index was
\* above 100 and whose semantic score came from an encoding
C1_Witness ==
    /\ e.entry = "http"
    /\ e.pc = "done"
    /\ e.transcript = Str(TxtEleven)
    /\ e.env.flesch = [ok |-> TRUE, value |-> 121]
    /\ e.encodes = 1
    /\ e.semantic = Unit
    /\ e.domain = ""

\* C2 (state part): an evaluation that read the gate as not ready returns
\* correctness 0.5 and has not called the encoder.
C2_NeutralWhenNotReady ==
    /\ (e.pc \in {"L225", "L180", "L132", "done"} /\ e.entry # "ws" /\ ~e.seen_ready) =>
          e.encodes = 0
    /\ (TechDone /\ ~e.seen_ready) => e.tech["correctness"] = Unit \div 2

\* C2 (step part): on reading the gate as not ready the semantic score is 0.5 in
\* that very step, with no sleep and no encoding in between.
C2_NoWaitStep ==
    (e.pc = "L216" /\ ~_models_loaded /\ e' # e) =>
        /\ e'.pc = "L180"
        /\ e'.semantic = Unit \div 2
        /\ e'.encodes = 0

\* C2: whenever the gate is not ready (unloaded, loading or failed),
\* evaluate_response returns correctness 0.5 for every question, answer and
\* domain, without waiting on the gate: no sleep, no call of the encoder.
C2_NotReadyIsNeutral == [] C2_NeutralWhenNotReady /\ [][C2_NoWaitStep]_vars

\* An evaluation through the endpoint is done that met the gate failed
C2_Witness ==
    /\ e.entry = "http"
    /\ e.pc = "done"
    /\ Gate = "failed"
    /\ ~e.seen_ready
    /\ e.transcript = Str(TxtGood)
    /\ e.domain = "software"

\* The fields of the gate
GateFields == << text_generator, semantic_model, _models_loaded, _loading >>

\* C3 (one step): the gate stays, or moves unloaded -> loading, loading -> ready
\* or loading -> failed, and only a step of the loader thread writes its fields.
C3_GateStep ==
    /\ \/ Gate' = Gate
       \/ << Gate, Gate' >> \in { << "unloaded", "loading" >>,
                                 << "loading", "ready" >>,
                                 << "loading", "failed" >> }
    /\ (GateFields' # GateFields) => (loader \notin {"unstarted", "finished"} /\ loader' # loader)

\* C3: the gate only moves unloaded -> loading -> ready or unloaded -> loading ->
\* failed, written by the loader alone; failed is never left (no retry) and
\* ready is never left.
C3_GateTransitions == [][C3_GateStep]_vars

\* A question was answered from the templates after the load had failed
C3_Witness ==
    /\ Gate = "failed"
    /\ q.pc = "done"
    /\ q.kind = "template"
    /\ q.sleeps = 1

\* C4 (state part): one loader thread has been started once __init__ has
\* returned, and none before.
C4_OneStart == load_starts = (IF Constructed THEN 1 ELSE 0)

\* C4 (step part): a finished loader never runs again, and a handler moves only
\* once __init__ has returned.
C4_NoRestart ==
    /\ loader = "finished" => loader' = "finished"
    /\ loader # "unstarted" => loader' # "unstarted"
    /\ (q' # q \/ e' # e) => Constructed

\* C4: the loader runs exactly once per LLMService: __init__ starts it on a
\* background thread and returns without waiting, it runs concurrently with the
\* request handlers, and no second load is started while it runs or afterwards.
C4_LoaderRunsOnce == [] C4_OneStart /\ [][C4_NoRestart]_vars

\* A whole request was handled while the loader was still loading the first model
C4_Witness ==
    /\ loader = "L48"
    /\ _loading
    /\ q.pc = "done"
    /\ load_starts = 1

\* C5 (state part): a call of generate_question sleeps once at most, before the
\* recheck and not after it.
C5_OneSleep ==
    /\ q.sleeps <= 1
    /\ q.pc \in {"L87", "L89"} => q.sleeps = 0
    /\ q.pc = "L90" => q.sleeps = 1

\* C5 (step part): a recheck that finds the gate still not ready returns a
\* template question in that step.
C5_RecheckStep ==
    (q.pc = "L90" /\ ~_models_loaded /\ q' # q) =>
        /\ q'.pc = "done"
        /\ q'.kind = "template"
        /\ q'.question \in Range(_get_question_templates(q.domain, q.experience_level))

\* C5: every call of generate_question waits for the gate one sleep and one
\* recheck at most; still not ready after the recheck, it returns a template
\* question; so the call ends in every gate state, also when the loader never
\* finishes or has failed.
C5_BoundedWait ==
    /\ [] C5_OneSleep
    /\ [][C5_RecheckStep]_vars
    /\ (q.pc # "idle") ~> (q.pc = "done")

\* A call has returned a template after one sleep, the loader still loading
C5_Witness ==
    /\ q.pc = "done"
    /\ q.sleeps = 1
    /\ q.kind = "template"
    /\ Gate = "loading"
    /\ loader = "L48"

\* A step of the analysis in progress raised
C6_Faulted ==
    \/ ~e.transcript.isStr
    \/ (~e.env.punkt /\ strip(e.transcript.chars) # << >>)

\* C6: analyze_communication never raises to its caller; when a step of the
\* analysis faults it returns score, clarity, grammar and tone 0.5, filler count
\* 0 and the suggestions ["Analysis error occurred"].
C6_AnalysisNeverRaises ==
    CommDone =>
        /\ ~e.comm["raised"]
        /\ C6_Faulted =>
              /\ e.comm["score"] = Unit \div 2
              /\ e.comm["clarity_score"] = Unit \div 2
              /\ e.comm["grammar_score"] = Unit \div 2
              /\ e.comm["tone_score"] = Unit \div 2
              /\ e.comm["filler_words_count"] = 0
              /\ e.comm["suggestions"] = << << "Analysis error occurred" >> >>

\* The websocket handler has analysed a transcript that is no string
C6_Witness ==
    /\ e.entry = "ws"
    /\ e.pc = "done"
    /\ ~e.transcript.isStr

\* evaluate_response has returned from its except branch with neutral scores
C7_NeutralScores ==
    /\ ~e.tech["raised"]
    /\ e.tech["score"] = Unit \div 2
    /\ e.tech["correctness"] = Unit \div 2
    /\ e.tech["completeness"] = Unit \div 2
    /\ e.tech["relevance"] = Unit \div 2
    /\ e.tech["suggestions"] = << >>

\* C7 as claimed: evaluate_response never raises to its caller; when a step of
\* the evaluation faults it returns all four scores 0.5, an empty feedback text
\* and an empty suggestions list.
C7_EmptyFeedbackOnFault ==
    (TechDone /\ EvaluationFaults(e.transcript)) =>
        /\ C7_NeutralScores
        /\ e.tech["feedback"] = << "" >>

\* C7 as amended: evaluate_response never raises to its caller; when a step of
\* the evaluation faults it returns all four scores 0.5, the feedback text
\* "Evaluation error occurred" and an empty suggestions list.
C7_ErrorFeedbackOnFault ==
    (TechDone /\ EvaluationFaults(e.transcript)) =>
        /\ C7_NeutralScores
        /\ e.tech["feedback"] = << "Evaluation error occurred" >>

\* evaluate_response was called with an answer that is no string and has returned
C7_Witness ==
    /\ e.entry = "call"
    /\ e.pc = "done"
    /\ ~e.transcript.isStr
    /\ e.domain = "software"

\* C8: the keyword lexicon, the concept lexicon and the template pool each have
\* a general entry; a lookup with a domain that is no key of the table returns
\* that table's general entry, and the templates a question is drawn from for
\* such a domain are the general ones.
C8_GeneralFallback ==
    /\ "general" \in DOMAIN keywords
    /\ "general" \in DOMAIN concept_map
    /\ "general" \in DOMAIN templates
    /\ \A domain \in {q.domain, e.domain} :
          /\ domain \notin DOMAIN keywords =>
                _get_domain_keywords(domain) = keywords["general"]
          /\ domain \notin DOMAIN concept_map =>
                _get_expected_concepts(domain) = concept_map["general"]
          /\ domain \notin DOMAIN templates =>
                \A level \in ExperienceLevels :
                    _get_question_templates(domain, level) = templates["general"]["fresher"]
    /\ (q.pc = "done" /\ q.kind = "template" /\ q.domain \notin DOMAIN templates) =>
          q.question \in Range(templates["general"]["fresher"])

\* A template question was returned for a domain that is no key of the tables
C8_Witness ==
    /\ q.pc = "done"
    /\ q.kind = "template"
    /\ q.domain = "finance"
    /\ q.experience_level = "intermediate"

\* The feedback history generate_report read in the last call
LastHistory == Get(reports[1].session_data, "feedback_history", << >>)

\* C9: for an empty session history generate_report does not fault and returns
\* overall_score 0.0, every other statistic zero, and the one-element weaknesses
\* list "Complete more sessions for analysis".
C9_EmptyHistoryReport ==
    (reports # << >> /\ LastHistory = << >>) =>
        LET report == reports[1].report
        IN  /\ ~reports[1].raised
            /\ "error" \notin DOMAIN report
            /\ report["summary"]["overall_score"] = 0
            /\ report["statistics"]["overall_score"] = 0
            /\ \A k \in DOMAIN report["statistics"] : report["statistics"][k] = 0
            /\ report["weaknesses"] = << << "Complete more sessions for analysis" >> >>

\* generate_report({}, "software") has returned
C9_Witness ==
    /\ reports # << >>
    /\ reports[1].session_data = EmptyDict
    /\ reports[1].domain = "software"

\* A report without its date
Undated(report) == [k \in DOMAIN report \ {"date"} |-> report[k]]

\* C10 (one call): the call leaves the session data it was given and the state of
\* the services as they were, and a call with the arguments of the call before
\* it returns the same report, the date aside.
C10_Step ==
    (reports' # reports) =>
        LET call == reports'[1]
        IN  /\ ~call.raised
            /\ call.session_data_after = call.session_data
            /\ UNCHANGED << gate_vars, q, e >>
            /\ (/\ reports # << >>
                /\ reports[1].session_data = call.session_data
                /\ reports[1].domain = call.domain) =>
                   Undated(call.report) = Undated(reports[1].report)

AnswerWords == WordCount(e.transcript.chars)

\* C12: the length (completeness) score of an answer of exactly 10, 20, 100 and
\* 150 words is 0.6, 0.9, 0.9 and 0.8, and of 9, 19, 101 and 151 words 0.3, 0.6,
\* 0.8 and 0.7.
C12_LengthTierEdges ==
    (TechDone /\ e.transcript.isStr) =>
        /\ AnswerWords = 9 => e.tech["completeness"] = (3 * Unit) \div 10
        /\ AnswerWords = 10 => e.tech["completeness"] = (6 * Unit) \div 10
        /\ AnswerWords = 19 => e.tech["completeness"] = (6 * Unit) \div 10
        /\ AnswerWords = 20 => e.tech["completeness"] = (9 * Unit) \div 10
        /\ AnswerWords = 100 => e.tech["completeness"] = (9 * Unit) \div 10
        /\ AnswerWords = 101 => e.tech["completeness"] = (8 * Unit) \div 10
        /\ AnswerWords = 150 => e.tech["completeness"] = (8 * Unit) \div 10
        /\ AnswerWords = 151 => e.tech["completeness"] = (7 * Unit) \div 10

\* evaluate_response has returned for an answer of 150 words
C12_Witness ==
    /\ e.entry = "call"
    /\ e.pc = "done"
    /\ e.transcript = Str(Words(150))
    /\ e.tech["completeness"] = (8 * Unit) \div 10

\* The length score is 0.9 for the word counts from low to 100 and less otherwise
PeakBand(low) ==
    (TechDone /\ e.transcript.isStr) =>
        /\ e.tech["completeness"] <= (9 * Unit) \div 10
        /\ e.tech["completeness"] = (9 * Unit) \div 10 <=>
              (low <= AnswerWords /\ AnswerWords <= 100)

C11_FillerPenalty ==
    LET without == analyze_communication(Str(TxtSixCodes), e.env)
    IN  (/\ CommDone
         /\ e.transcript = Str(TxtFillersThenCodes)
         /\ ~C6_Faulted
         /\ e.comm["filler_words_count"] = 11
         /\ without["filler_words_count"] = 0) =>
            100 * e.comm["score"] <= 75 * without["score"]

\* pat occurs in text at position j as a whole word
WholeWordAt(pat, text, j) ==
    /\ MatchAt(pat, text, j)
    /\ Boundary(text, j)
    /\ Boundary(text, j + Len(pat))

\* How many times a filler is listed in what a detection returned
Listed(filler) == Cardinality({k \in DOMAIN e.fillers.found : e.fillers.found[k] = filler})

\* C13: filler detection lists the fillers of the fixed list, matched without
\* regard to case and as whole words only ("like" in "likely" and "ok" in "okay"
\* are not counted); its count is the number of occurrences it lists; empty text
\* gives ([], 0); on "Um, I think UM so" it lists "um" exactly twice.
C13_WholeWordFillers ==
    (e.pc = "done" /\ e.entry \in {"analysis_fillers", "audio_fillers"}) =>
        LET text_lower == lower(e.transcript.chars)
        IN  /\ e.fillers.count = Len(e.fillers.found)
            /\ Range(e.fillers.found) \subseteq Range(filler_words)
            /\ \A filler \in Range(filler_words) :
                  Listed(filler) =
                      Cardinality({j \in DOMAIN text_lower : WholeWordAt(filler, text_lower, j)})
            /\ e.transcript.chars = TxtEmpty =>
                  (e.fillers.found = << >> /\ e.fillers.count = 0)
            /\ e.transcript.chars = TxtUm => Listed(<< "u", "m" >>) = 2
            /\ e.transcript.chars = TxtLikely =>
                  (Listed(<< "l", "i", "k", "e" >>) = 0 /\ Listed(<< "o", "k" >>) = 0)

\* C14: for every session history, also one whose entries lack fields or hold
\* values of the wrong shape, generate_report returns a report that carries the
\* summary, the statistics, strengths, weaknesses, improvement_plan and
\* recommendations; no fault reaches the caller as an exception or as a result
\* without those fields.
C14_WellFormedReport ==
    reports # << >> =>
        /\ ~reports[1].raised
        /\ {"summary", "statistics", "strengths", "weaknesses", "improvement_plan",
            "recommendations"} \subseteq DOMAIN reports[1].report

\* The TurnFeedback the evaluate endpoint returns
TurnFeedback ==
    [communication |-> e.comm, technical |-> e.tech, overall_score |-> e.overall_score]

\* C15 (state part): once the evaluate endpoint has evaluated a turn, the
\* TurnFeedback is the last entry of the history of the session the request names.
C15_TurnRecorded ==
    (e.entry = "http" /\ e.pc = "done") =>
        \A i \in DOMAIN sessions :
            sessions[i].session_id = e.session_id =>
                /\ sessions[i].feedback_history # << >>
                /\ sessions[i].feedback_history[Len(sessions[i].feedback_history)]
                       = TurnFeedback

\* C15 (step part): a step keeps every session and leaves what its history held
\* in place, in order: entries are only added at the end.
C15_OnlyGrows ==
    \A i \in DOMAIN sessions :
        /\ i \in DOMAIN sessions'
        /\ Len(sessions'[i].feedback_history) >= Len(sessions[i].feedback_history)
        /\ SubSeq(sessions'[i].feedback_history, 1, Len(sessions[i].feedback_history))
               = sessions[i].feedback_history

\* C15: each evaluated turn's TurnFeedback is appended to the history of its
\* session, in turn order; a history only grows during the session, and no
\* append is lost.
C15_HistoryAppend == [] C15_TurnRecorded /\ [][C15_OnlyGrows]_vars

\* The transcript under evaluation is a string that is empty or all whitespace
BlankTranscript ==
    /\ e.transcript.isStr
    /\ \A i \in DOMAIN e.transcript.chars : IsSpace(e.transcript.chars[i])

\* C16: an empty or whitespace-only transcript is scored on the normal path:
\* analyze_communication returns clarity 0.0, grammar 0.0, tone 0.5, filler count
\* 0 and composite 0.15, evaluate_response returns relevance 0.3 and completeness
\* 0.3, and neither returns its fixed error result.
C16_BlankOnNormalPath ==
    /\ (CommDone /\ BlankTranscript) =>
          /\ ~e.comm["raised"]
          /\ e.comm["clarity_score"] = 0
          /\ e.comm["grammar_score"] = 0
          /\ e.comm["tone_score"] = Unit \div 2
          /\ e.comm["filler_words_count"] = 0
          /\ e.comm["score"] = 15 * Cent
          /\ e.comm["suggestions"] # AnalysisError["suggestions"]
    /\ (TechDone /\ BlankTranscript) =>
          /\ ~e.tech["raised"]
          /\ e.tech["relevance"] = (3 * Unit) \div 10
          /\ e.tech["completeness"] = (3 * Unit) \div 10
          /\ e.tech["feedback"] # EvaluationError["feedback"]

\* The endpoint has evaluated a whitespace-only transcript, the punkt data missing
C16_Witness ==
    /\ e.entry = "http"
    /\ e.pc = "done"
    /\ e.transcript = Str(TxtBlank)
    /\ ~e.env.punkt

\* analyze_communication has just returned to the handler that called it
AnalysisReturned ==
    \/ (e.entry = "http" /\ e.pc = "L216")
    \/ (e.entry = "ws" /\ e.pc = "done")

\* 0.4*clarity + 0.3*grammar + 0.3*tone, in tenths of the unit, of each
\* transcript with each outcome of textstat
WeightedSubScores ==
    [call \in SpokenTexts \X FleschOutcomes |->
        4 * _calculate_clarity_score(call[1], call[2])
        + 3 * _calculate_grammar_score(call[1])
        + 3 * _calculate_tone_score(call[1])] @@ << >>

\* |a - b|
Distance(a, b) == IF a >= b THEN a - b ELSE b - a

\* C17: the communication composite is 0.4*clarity + 0.3*grammar + 0.3*tone,
\* times 0.9 for 6 to 10 fillers and times 0.72 for 11 or more, with no penalty
\* for 0 to 5, clamped to [0,1] (the returned score is that, rounded to 2 decimals).
C17_CompositeFormula ==
    (AnalysisReturned /\ ~C6_Faulted) =>
        LET base == WeightedSubScores[<< e.transcript.chars, e.env.flesch >>]
            filler_count == e.comm["filler_words_count"]
            factor == IF filler_count >= 11 THEN 72
                      ELSE IF filler_count >= 6 THEN 90
                      ELSE 100
            composite == Min(Unit, Max(0, (base * factor) \div 1000))
        IN  Distance(e.comm["score"], composite) <= Cent \div 2 + 1

\* The endpoint has scored a transcript of 11 fillers
C17_Witness ==
    /\ e.entry = "http"
    /\ e.pc = "L216"
    /\ e.transcript = Str(TxtEleven)
    /\ e.comm["filler_words_count"] = 11
    /\ e.env.punkt

\* C18: the communication suggestions are determined by the returned result: a
\* filler tip with the exact count iff the filler count is over 5, a clarity tip
\* iff the returned clarity is under 0.6, a grammar tip iff the returned grammar
\* is under 0.6, a tone tip iff the returned tone is under 0.6, in that order;
\* the one positive message iff none of the four, so the list is never empty.
C18_SuggestionsFromReturned ==
    (CommDone /\ ~C6_Faulted) =>
        LET tips ==
                (IF e.comm["filler_words_count"] > 5
                 THEN << FillerTip(e.comm["filler_words_count"]) >> ELSE << >>)
                \o (IF e.comm["clarity_score"] < (6 * Unit) \div 10
                    THEN << ClarityTip >> ELSE << >>)
                \o (IF e.comm["grammar_score"] < (6 * Unit) \div 10
                    THEN << GrammarTip >> ELSE << >>)
                \o (IF e.comm["tone_score"] < (6 * Unit) \div 10
                    THEN << ToneTip >> ELSE << >>)
        IN  /\ e.comm["suggestions"] # << >>
            /\ e.comm["suggestions"] = IF tips = << >> THEN << GreatCommunication >> ELSE tips

\* C20: in every result of evaluate_response that is not the error fallback, the
\* feedback text and the suggestions list are those of the tier the returned
\* composite score selects (top iff score >= 0.7, middle iff 0.5 <= score < 0.7,
\* bottom iff score < 0.5), and the feedback text names the requested domain.
C20_TierOfReturnedScore ==
    (TechDone /\ e.transcript.isStr) =>
        LET score == e.tech["score"]
            tier == IF score >= (7 * Unit) \div 10 THEN "top"
                    ELSE IF score >= (5 * Unit) \div 10 THEN "middle"
                    ELSE "bottom"
        IN  /\ e.tech["feedback"][2] = e.domain
            /\ e.tech["feedback"][1] =
                   (IF tier = "top" THEN "Good answer! You demonstrated understanding."
                    ELSE IF tier = "middle" THEN "Your answer shows basic understanding."
                    ELSE "Your answer needs more depth.")
            /\ Len(e.tech["suggestions"]) =
                   (IF tier = "top" THEN 2 ELSE IF tier = "middle" THEN 3 ELSE 4)
            /\ e.tech["suggestions"] = _get_improvement_suggestions(e.domain, score)

\* The last call of generate_report returned a report (not the error dict) of a
\* history that is not empty
ReportedHistory ==
    /\ reports # << >>
    /\ LastHistory # << >>
    /\ "error" \notin DOMAIN reports[1].report

\* C21: for a non-empty history the strengths list is determined by the report's
\* own statistics, in this order: "Strong communication skills" if
\* avg_communication >= 0.7, else "Good communication foundation" if it is >= 0.6;
\* the analogous technical entry from avg_technical; "Minimal use of filler
\* words" if the mean fillers per turn is under 3; "Clear and articulate
\* responses" if avg_clarity >= 0.7; the single generic encouragement if no rule
\* fires.
C21_StrengthsFromStatistics ==
    ReportedHistory =>
        LET stats == reports[1].report["statistics"]
            rules ==
                (IF stats["avg_communication"] >= (7 * Unit) \div 10
                 THEN << << "Strong communication skills" >> >>
                 ELSE IF stats["avg_communication"] >= (6 * Unit) \div 10
                 THEN << << "Good communication foundation" >> >>
                 ELSE << >>)
                \o (IF stats["avg_technical"] >= (7 * Unit) \div 10
                    THEN << << "Solid technical knowledge" >> >>
                    ELSE IF stats["avg_technical"] >= (6 * Unit) \div 10
                    THEN << << "Good technical understanding" >> >>
                    ELSE << >>)
                \o (IF stats["total_filler_words"] < 3 * stats["sessions_completed"]
                    THEN << << "Minimal use of filler words" >> >> ELSE << >>)
                \o (IF stats["avg_clarity"] >= (7 * Unit) \div 10
                    THEN << << "Clear and articulate responses" >> >> ELSE << >>)
        IN  reports[1].report["strengths"] =
                IF rules = << >> THEN << << "Shows potential with practice" >> >> ELSE rules

\* The last call of generate_report returned a report, not the error dict
Reported == reports # << >> /\ "error" \notin DOMAIN reports[1].report

\* The areas of the blocks of the improvement plan of the last report, in order
PlanAreas ==
    LET plan == reports[1].report["improvement_plan"]
    IN  [i \in DOMAIN plan |-> plan[i].area]

\* C22: the improvement plan contains the Communication block iff
\* avg_communication < 0.7, the Technical Knowledge block iff avg_technical < 0.7
\* and the Filler Words block iff the total of fillers is over 10, in that order;
\* it is the single Maintenance block of low priority iff none of the three gates
\* fires, so it is never empty and Maintenance stands next to no other block.
C22_PlanGates ==
    Reported =>
        LET stats == reports[1].report["statistics"]
            plan == reports[1].report["improvement_plan"]
            gated ==
                (IF stats["avg_communication"] < (7 * Unit) \div 10
                 THEN << "Communication" >> ELSE << >>)
                \o (IF stats["avg_technical"] < (7 * Unit) \div 10
                    THEN << "Technical Knowledge" >> ELSE << >>)
                \o (IF stats["total_filler_words"] > 10 THEN << "Filler Words" >> ELSE << >>)
        IN  /\ plan # << >>
            /\ PlanAreas = IF gated = << >> THEN << "Maintenance" >> ELSE gated
            /\ \A i \in DOMAIN plan :
                  plan[i].area = "Maintenance" => (Len(plan) = 1 /\ plan[i].priority = "Low")

\* A report of one turn whose means round up to 0.7: no gate fires
C22_Witness ==
    /\ Reported
    /\ Len(LastHistory) = 1
    /\ reports[1].report["statistics"]["avg_communication"] = (7 * Unit) \div 10
    /\ reports[1].report["statistics"]["avg_technical"] = (7 * Unit) \div 10
    /\ PlanAreas = << "Maintenance" >>

\* How many entries of a strengths or weaknesses list are among the texts given
CountOf(entries, texts) == Cardinality({i \in DOMAIN entries : entries[i][1] \in texts})

\* C27: for every non-empty history the report contains exactly one of a
\* communication strength ("Strong communication skills" or "Good communication
\* foundation") and the communication weakness ("Communication skills need
\* improvement"), exactly one of a technical strength and the technical
\* weakness, and its strengths list and its weaknesses list are not empty.
C27_OneOfEach ==
    (reports # << >> /\ LastHistory # << >>) =>
        LET report == reports[1].report
        IN  /\ "strengths" \in DOMAIN report
            /\ "weaknesses" \in DOMAIN report
            /\ report["strengths"] # << >>
            /\ report["weaknesses"] # << >>
            /\ CountOf(report["strengths"],
                       {"Strong communication skills", "Good communication foundation"})
               + CountOf(report["weaknesses"], {"Communication skills need improvement"}) = 1
            /\ CountOf(report["strengths"],
                       {"Solid technical knowledge", "Good technical understanding"})
               + CountOf(report["weaknesses"], {"Technical knowledge needs strengthening"}) = 1

\* The weaknesses of the last report name the high use of filler words
HighFillerWeakness ==
    CountOf(reports[1].report["weaknesses"], {"High use of filler words (average)"}) > 0

\* "Filler Words" is the area of a block of the plan of the last report
FillerWordsBlock == \E i \in DOMAIN PlanAreas : PlanAreas[i] = "Filler Words"

\* C28 as stated: whenever the weaknesses of a report contain the high-filler
\* entry (mean fillers per turn over 5), its improvement plan contains the
\* "Filler Words" block.
C28_FillerWeaknessPlanned ==
    (Reported /\ HighFillerWeakness) => FillerWordsBlock

\* C28, amended: whenever the weaknesses of a report of a history of two turns
\* or more contain the high-filler entry, its improvement plan contains the
\* "Filler Words" block.
C28_FillerWeaknessPlannedFromTwoTurns ==
    (Reported /\ Len(LastHistory) >= 2 /\ HighFillerWeakness) => FillerWordsBlock

\* A report of two turns of 6 fillers each: mean 6, total 12
C28_Witness ==
    /\ Reported
    /\ Len(LastHistory) = 2
    /\ reports[1].report["statistics"]["total_filler_words"] = 12
    /\ HighFillerWeakness
    /\ FillerWordsBlock

\* C25: any two calls of start_interview in one process return different
\* session_id values: every new InterviewSession has an identifier of its own.
C25_DistinctSessionIds ==
    \A i, j \in DOMAIN sessions :
        i # j => sessions[i].session_id # sessions[j].session_id

\* The domains that have a pool of their own in the template table
KnownDomains == DOMAIN templates

\* Every question of the pools of a domain
DomainPool(domain) ==
    UNION {Range(templates[domain][level]) : level \in DOMAIN templates[domain]}

\* Every question of the template table
TemplatePool == UNION {DomainPool(domain) : domain \in KnownDomains}

\* C23: generate_question never raises and returns neither the prompt nor an
\* empty string: whenever the gate is not ready, text generation fails, or the
\* generated text after the prompt is not longer than 10 and shorter than 200
\* characters, the result is a question of the fixed template pool, and for each
\* known domain that question belongs to the pool of the requested domain.
C23_TemplateFallback ==
    (q.pc = "done") =>
        /\ ~q.raised
        /\ q.question # ""
        /\ q.kind \in {"generated", "template"}
        /\ q.kind = "generated" => (q.seen_ready /\ q.length > 10 /\ q.length < 200)
        /\ q.kind = "template" => q.question \in TemplatePool
        /\ (q.kind = "template" /\ q.domain \in KnownDomains) =>
               q.question \in DomainPool(q.domain)

\* Both model handles are set
HandlesSet == text_generator # "None" /\ semantic_model # "None"

\* A handler that passed the readiness check uses a model that is set
C24_NoUnsetModelUsed ==
    /\ q.pc = "L101" => text_generator # "None"
    /\ e.pc = "L225" => semantic_model # "None"

\* C24 as stated: whenever the gate reads ready both model handles are set, and
\* while the loader thread is still running the gate reads not ready; so a
\* handler that passed the readiness check never uses an unset model.
C24_ReadyOnlyAfterLoader ==
    /\ _models_loaded => HandlesSet
    /\ loader \notin {"unstarted", "finished"} => ~_models_loaded
    /\ C24_NoUnsetModelUsed

\* C24, amended: whenever the gate reads ready both model handles are set, and
\* while the loader has not yet loaded both models (it has not passed the
\* assignment of line 64) the gate reads not ready; so a handler that passed the
\* readiness check never uses an unset model.
C24_ReadyOnlyAfterHandles ==
    /\ _models_loaded => HandlesSet
    /\ loader \in {"L39", "L41", "L48", "L61", "L64"} => ~_models_loaded
    /\ C24_NoUnsetModelUsed

\* A handler passed the readiness check and encodes while the loader thread,
\* past line 64, has not yet run its finally block
C24_Witness ==
    /\ e.pc = "L225"
    /\ loader = "L72"
    /\ _loading
    /\ _models_loaded

\* evaluate_response has returned in an evaluation that read the gate not ready
TechDoneNotReady == TechDone /\ ~e.seen_ready

\* C26: whenever the gate is not ready, the technical composite evaluate_response
\* returns lies in [0.40, 0.70] for every answer and domain, and it is 0.70 (the
\* top feedback tier) only for an answer of at least 5 keywords of the domain
\* and of 20 to 100 words.
C26_NotReadyRange ==
    TechDoneNotReady =>
        /\ e.tech["score"] >= (40 * Unit) \div 100
        /\ e.tech["score"] <= (70 * Unit) \div 100
        /\ e.tech["score"] = (70 * Unit) \div 100 =>
              /\ e.transcript.isStr
              /\ CountContained(_get_domain_keywords(e.domain), lower(e.transcript.chars)) >= 5
              /\ WordCount(e.transcript.chars) >= 20
              /\ WordCount(e.transcript.chars) <= 100
              /\ e.tech["feedback"][1] = "Good answer! You demonstrated understanding."
        /\ e.tech["score"] < (70 * Unit) \div 100 =>
              e.tech["feedback"][1] # "Good answer! You demonstrated understanding."

\* The gate not ready, an answer of 23 words with 5 software keywords is scored 0.70
C26_Witness ==
    /\ TechDoneNotReady
    /\ e.transcript = Str(TxtStrong)
    /\ e.domain = "software"
    /\ e.tech["score"] = (70 * Unit) \div 100
    /\ e.tech["feedback"][1] = "Good answer! You demonstrated understanding."

====
